---- MODULE Spec2Model ----
(***************************************************************************)
(* A model of the parser combinators of mxjp/validation: the Parser        *)
(* contract (input, path) -> output or ParserError, formatPath, validate,  *)
(* pipe, optional, arrayOf, object, the leaf parsers they are combined     *)
(* with, and the ISO 8601 duration parser.                                 *)
(*                                                                         *)
(* JavaScript values are tagged records.  Objects and arrays are           *)
(* references into a heap, so that identity (aliasing) and mutation of     *)
(* caller-owned data are observable.  A string value is the sequence of    *)
(* its characters; property names, path segments and error messages are    *)
(* TLA+ strings.                                                           *)
(***************************************************************************)
EXTENDS Integers, Sequences, FiniteSets, TLC

VARIABLES pc, parser, input, path, heap, outcome

vars == <<pc, parser, input, path, heap, outcome>>

RECURSIVE Apply(_, _, _, _)
RECURSIVE pipeLoop(_, _, _, _, _, _)
RECURSIVE arrayMap(_, _, _, _, _, _, _)
RECURSIVE objectFields(_, _, _, _, _, _, _)

--------------------------------------------------------------------------
(* Values *)

Undefined == [t |-> "undefined"]

Null == [t |-> "null"]

Num(n) == [t |-> "number", n |-> n]

NaN == [t |-> "number", nan |-> TRUE]

Str(chars) == [t |-> "string", s |-> chars]

Bool(b) == [t |-> "boolean", b |-> b]

\* A reference to heap cell id: an array or a plain object.
Ref(id) == [t |-> "object", id |-> id]

\* typeof v
TypeOf(v) == IF v.t = "null" THEN "object" ELSE v.t

IsNaN(v) == v.t = "number" /\ "nan" \in DOMAIN v

IsRef(v) == v.t = "object"

\* a === b
StrictEquals(a, b) == IF IsNaN(a) \/ IsNaN(b) THEN FALSE ELSE a = b

--------------------------------------------------------------------------
(* The heap: cell id is heap[id] *)

\* A property of an object: own or inherited from the prototype chain,
\* enumerable or not.
Prop(key, value, own, enumerable) ==
    [key |-> key, value |-> value, own |-> own, enumerable |-> enumerable]

\* props is held in property enumeration order.
ObjectCell(props) == [class |-> "Object", props |-> props]

ArrayCell(elems) == [class |-> "Array", elems |-> elems]

IsArray(v, h) == IsRef(v) /\ h[v.id].class = "Array"

\* new cell: the heap grown by one cell; the new reference is Ref(Len(h) + 1)
Alloc(h, cell) == Append(h, cell)

RECURSIVE FindProp(_, _, _)
FindProp(props, key, i) ==
    IF i > Len(props) THEN 0
    ELSE IF props[i].key = key THEN i
    ELSE FindProp(props, key, i + 1)

\* The index digits of an array as property names.
IndexKey(i) == ToString(i)

IndexProps(elems) ==
    [i \in 1..Len(elems) |-> Prop(IndexKey(i - 1), elems[i], TRUE, TRUE)]

\* The properties of a cell that obj[key] and for...in see.
PropsOf(cell) ==
    IF cell.class = "Array" THEN IndexProps(cell.elems) ELSE cell.props

\* obj[key]: the own or inherited property, enumerable or not; undefined
\* when there is none.
Get(cell, key) ==
    LET props == PropsOf(cell)
        i == FindProp(props, key, 1)
    IN IF i = 0 THEN Undefined ELSE props[i].value

\* for (const key in obj): the enumerable string-keyed properties, own
\* first, then those inherited through the prototype chain.
ForIn(cell) ==
    LET props == PropsOf(cell)
        own == SelectSeq(props, LAMBDA p : p.own /\ p.enumerable)
        inherited == SelectSeq(props, LAMBDA p : ~p.own /\ p.enumerable)
    IN [i \in 1..(Len(own) + Len(inherited)) |->
            IF i <= Len(own) THEN own[i].key ELSE inherited[i - Len(own)].key]

--------------------------------------------------------------------------
(* Path, ParserError, formatPath *)

KeySeg(name) == [t |-> "string", key |-> name]

IndexSeg(i) == [t |-> "number", n |-> i]

SymbolSeg(description) == [t |-> "symbol", description |-> description]

\* path.concat(segment)
Concat(p, segment) == Append(p, segment)

\* String(symbol)
SymbolString(segment) == "Symbol(" \o segment.description \o ")"

\* The text of a string the library builds, such as formatPath's result.
Text(text) == [t |-> "text", text |-> text]

\* formatPath's loop emitting the first string segment bare wherever it stands.
RECURSIVE formatSegments_firstStringBare(_, _)
formatSegments_firstStringBare(p, i) ==
    IF i > Len(p) THEN ""
    ELSE LET segment == p[i]
             piece ==
                 IF segment.t = "string"
                 THEN IF \A j \in 1..(i - 1) : p[j].t # "string"
                      THEN segment.key ELSE "." \o segment.key
                 ELSE IF segment.t = "number"
                 THEN "[" \o ToString(segment.n) \o "]"
                 ELSE "[" \o SymbolString(segment) \o "]"
         IN piece \o formatSegments_firstStringBare(p, i + 1)

RECURSIVE formatSegments(_, _)
formatSegments(p, i) ==
    IF i > Len(p) THEN ""
    ELSE LET segment == p[i]
             piece ==
                 IF segment.t = "string"
                 THEN IF i = 1 THEN segment.key ELSE "." \o segment.key
                 ELSE IF segment.t = "number"
                 THEN "[" \o ToString(segment.n) \o "]"
                 ELSE "[" \o SymbolString(segment) \o "]"
         IN piece \o formatSegments(p, i + 1)

formatPath(p) == "\"" \o formatSegments(p, 1) \o "\""

ParserError(p, message) ==
    [class |-> "ParserError", path |-> p, message |-> message]

\* Any failure that is not a ParserError.
OtherError(message) == [class |-> "Error", path |-> <<>>, message |-> message]

NoError == [class |-> "none", path |-> <<>>, message |-> ""]

--------------------------------------------------------------------------
(* Outcomes of a call.  calls is the log of the invocations the called     *)
(* parser made itself, in the order it made them: the parser (or caller    *)
(* function) invoked, the input and the path it was given, how it ended,   *)
(* and the invocations it made in turn.                                    *)

Invocation(fn, in, p, o) ==
    [fn |-> fn, input |-> in, path |-> p,
     kind |-> o.kind, value |-> o.value, error |-> o.error, calls |-> o.calls]

Return(value, h, calls) ==
    [kind |-> "return", value |-> value, error |-> NoError,
     heap |-> h, calls |-> calls]

Throw(error, h, calls) ==
    [kind |-> "throw", value |-> Undefined, error |-> error,
     heap |-> h, calls |-> calls]

NotCalled ==
    [kind |-> "none", value |-> Undefined, error |-> NoError,
     heap |-> <<>>, calls |-> <<>>]

Returned(o) == o.kind = "return"

Threw(o) == o.kind = "throw"

ThrewParserError(o) == Threw(o) /\ o.error.class = "ParserError"

--------------------------------------------------------------------------
(* Text of values: String(v) and `${v}` *)

Digits == <<"0", "1", "2", "3", "4", "5", "6", "7", "8", "9">>

IsDigit(c) == \E d \in 1..Len(Digits) : Digits[d] = c

RECURSIVE NumberChars(_)
NumberChars(n) ==
    IF n < 0 THEN <<"-">> \o NumberChars(-n)
    ELSE IF n < 10 THEN <<Digits[n + 1]>>
    ELSE NumberChars(n \div 10) \o <<Digits[(n % 10) + 1]>>

RECURSIVE ToText(_, _)
RECURSIVE JoinElems(_, _, _)
\* Array.prototype.join(","): null and undefined elements give no text.
JoinElems(elems, i, h) ==
    IF i > Len(elems) THEN <<>>
    ELSE LET e == elems[i]
             text == IF e.t \in {"undefined", "null"} THEN <<>> ELSE ToText(e, h)
         IN (IF i = 1 THEN <<>> ELSE <<",">>) \o text \o JoinElems(elems, i + 1, h)

\* String(v)
ToText(v, h) ==
    CASE v.t = "undefined" -> <<"u", "n", "d", "e", "f", "i", "n", "e", "d">>
      [] v.t = "null" -> <<"n", "u", "l", "l">>
      [] v.t = "boolean" ->
            IF v.b THEN <<"t", "r", "u", "e">> ELSE <<"f", "a", "l", "s", "e">>
      [] v.t = "number" ->
            IF IsNaN(v) THEN <<"N", "a", "N">> ELSE NumberChars(v.n)
      [] v.t = "string" -> v.s
      [] v.t = "object" ->
            IF h[v.id].class = "Array" THEN JoinElems(h[v.id].elems, 1, h)
            ELSE <<"[", "o", "b", "j", "e", "c", "t", " ",
                   "O", "b", "j", "e", "c", "t", "]">>

\* The characters of a string value as one message string.
RECURSIVE Joined(_, _)
Joined(chars, i) ==
    IF i > Len(chars) THEN "" ELSE chars[i] \o Joined(chars, i + 1)

--------------------------------------------------------------------------
(* Caller-supplied functions: getDefault and message sources *)

\* () => value
Returning(value) == [t |-> "function", does |-> "return", value |-> value]

\* (input, path) => `dynamic ${input} ${formatPath(path)}`
DynamicMessage == [t |-> "function", does |-> "message", value |-> Undefined]

\* A function that throws something that is no ParserError.
Throwing == [t |-> "function", does |-> "throw", value |-> Undefined]

\* f(in, p): [threw, value] where value is the message text of a message
\* source, or the value returned.
CallFunction(f, in, p, h) ==
    CASE f.does = "return" -> [threw |-> FALSE, value |-> f.value]
      [] f.does = "message" ->
            [threw |-> FALSE,
             value |-> "dynamic " \o Joined(ToText(in, h), 1) \o " " \o formatPath(p)]
      [] f.does = "throw" -> [threw |-> TRUE, value |-> OtherError("thrown by caller")]

\* A fixed message string.
Message(text) == [t |-> "message", text |-> text]

\* getErrorMessage: [threw, defined, value]
getErrorMessage(messageSource, in, p, h) ==
    IF messageSource = Undefined
    THEN [threw |-> FALSE, defined |-> FALSE, value |-> ""]
    ELSE IF messageSource.t = "message"
    THEN [threw |-> FALSE, defined |-> TRUE, value |-> messageSource.text]
    ELSE LET r == CallFunction(messageSource, in, p, h)
         IN IF r.threw
            THEN [threw |-> TRUE, defined |-> FALSE, value |-> ""]
            ELSE [threw |-> FALSE, defined |-> TRUE, value |-> r.value]

--------------------------------------------------------------------------
(* Leaf parsers.  Each is the closure the constructor returns, applied to  *)
(* (in, p) on heap h.                                                      *)

\* pass()
pass(in, p, h) == Return(in, h, <<>>)

\* string()
string(in, p, h) ==
    IF TypeOf(in) # "string"
    THEN Throw(ParserError(p, formatPath(p) \o " must be a string"), h, <<>>)
    ELSE Return(in, h, <<>>)

\* a < b on numbers: false when either is NaN
LessThan(a, b) == ~IsNaN(a) /\ ~IsNaN(b) /\ a.n < b.n

\* number(min, max)
number(min, max, in, p, h) ==
    IF \/ TypeOf(in) # "number"
       \/ (min # Undefined /\ LessThan(in, min))
       \/ (max # Undefined /\ LessThan(max, in))
       \/ IsNaN(in)
    THEN LET text ==
                 IF min = Undefined
                 THEN IF max = Undefined
                      THEN " must be a number"
                      ELSE " must be a number less than or equal to " \o ToString(max.n)
                 ELSE IF max = Undefined
                      THEN " must be a number greater than or equal to " \o ToString(min.n)
                      ELSE " must be a number from " \o ToString(min.n)
                               \o " to " \o ToString(max.n)
         IN Throw(ParserError(p, formatPath(p) \o text), h, <<>>)
    ELSE Return(in, h, <<>>)

\* equals(value, messageSource)
equals(value, messageSource, in, p, h) ==
    IF ~StrictEquals(in, value)
    THEN LET m == getErrorMessage(messageSource, in, p, h)
         IN IF m.threw
            THEN Throw(OtherError("thrown by caller"), h, <<>>)
            ELSE Throw(ParserError(p, IF m.defined THEN m.value
                                      ELSE formatPath(p) \o " is invalid"), h, <<>>)
    ELSE Return(in, h, <<>>)

\* TEST_NUM of the test suite: a number to the string `test${input}`
TEST_NUM(in, p, h) ==
    IF TypeOf(in) # "number"
    THEN Throw(ParserError(p, "test"), h, <<>>)
    ELSE Return(Str(<<"t", "e", "s", "t">> \o ToText(in, h)), h, <<>>)

\* add of the test suite: (input) => input + 1, on numbers
add(in, p, h) ==
    IF TypeOf(in) = "number" /\ ~IsNaN(in)
    THEN Return(Num(in.n + 1), h, <<>>)
    ELSE IF TypeOf(in) = "string"
    THEN Return(Str(in.s \o <<"1">>), h, <<>>)
    ELSE Return(NaN, h, <<>>)

--------------------------------------------------------------------------
(* Combinators *)

\* pipeLoop handing every stage the value the pipe was called with.
pipeLoop_sameInput(parsers, i, value, p, h, calls) ==
    IF i > Len(parsers) THEN Return(value, h, calls)
    ELSE LET o == Apply(parsers[i], value, p, h)
             log == Append(calls, Invocation(parsers[i], value, p, o))
         IN IF Threw(o) THEN Throw(o.error, o.heap, log)
            ELSE pipeLoop(parsers, i + 1, value, p, o.heap, log)

\* pipe(...parsers): the loop from stage i on
pipeLoop(parsers, i, value, p, h, calls) ==
    IF i > Len(parsers) THEN Return(value, h, calls)
    ELSE LET o == Apply(parsers[i], value, p, h)
             log == Append(calls, Invocation(parsers[i], value, p, o))
         IN IF Threw(o) THEN Throw(o.error, o.heap, log)
            ELSE pipeLoop(parsers, i + 1, o.value, p, o.heap, log)

pipe(parsers, in, p, h) == pipeLoop(parsers, 1, in, p, h, <<>>)

\* optional taking null for absent too (input == null).
optional_nullish(inner, getDefault, in, p, h) ==
    IF in \in {Undefined, Null}
    THEN IF getDefault = Undefined
         THEN Return(Undefined, h, <<>>)
         ELSE LET r == CallFunction(getDefault, Undefined, <<>>, h)
                  o == IF r.threw THEN Throw(r.value, h, <<>>)
                       ELSE Return(r.value, h, <<>>)
              IN [o EXCEPT !.calls = <<Invocation(getDefault, Undefined, <<>>, o)>>]
    ELSE LET o == Apply(inner, in, p, h)
         IN [o EXCEPT !.calls = <<Invocation(inner, in, p, o)>>]

\* optional(inner, getDefault)
optional(inner, getDefault, in, p, h) ==
    IF StrictEquals(in, Undefined)
    THEN IF getDefault = Undefined
         THEN Return(Undefined, h, <<>>)
         ELSE LET r == CallFunction(getDefault, Undefined, <<>>, h)
                  o == IF r.threw THEN Throw(r.value, h, <<>>)
                       ELSE Return(r.value, h, <<>>)
              IN [o EXCEPT !.calls = <<Invocation(getDefault, Undefined, <<>>, o)>>]
    ELSE LET o == Apply(inner, in, p, h)
         IN [o EXCEPT !.calls = <<Invocation(inner, in, p, o)>>]

\* arrayMap visiting the elements from the last index down.
arrayMap_lastFirst(inner, elems, i, p, h, out, calls) ==
    IF i >= Len(elems) THEN Return(Ref(out), h, calls)
    ELSE LET index == Len(elems) - 1 - i
             subInput == elems[index + 1]
             subPath == Concat(p, IndexSeg(index))
             o == Apply(inner, subInput, subPath, h)
             log == Append(calls, Invocation(inner, subInput, subPath, o))
         IN IF Threw(o) THEN Throw(o.error, o.heap, log)
            ELSE arrayMap(inner, elems, i + 1, p,
                          [o.heap EXCEPT ![out].elems = Append(@, o.value)],
                          out, log)

\* input.map((subInput, i) => inner(subInput, path.concat(i))): the
\* elements from index i (0-based) on, into the new array cell out
arrayMap(inner, elems, i, p, h, out, calls) ==
    IF i >= Len(elems) THEN Return(Ref(out), h, calls)
    ELSE LET subInput == elems[i + 1]
             subPath == Concat(p, IndexSeg(i))
             o == Apply(inner, subInput, subPath, h)
             log == Append(calls, Invocation(inner, subInput, subPath, o))
         IN IF Threw(o) THEN Throw(o.error, o.heap, log)
            ELSE arrayMap(inner, elems, i + 1, p,
                          [o.heap EXCEPT ![out].elems = Append(@, o.value)],
                          out, log)

\* arrayOf(inner)
arrayOf(inner, in, p, h) ==
    IF ~IsArray(in, h)
    THEN Throw(ParserError(p, formatPath(p) \o " must be an array"), h, <<>>)
    ELSE arrayMap(inner, h[in.id].elems, 0, p,
                  Alloc(h, ArrayCell(<<>>)), Len(h) + 1, <<>>)

\* Object.hasOwn(parser, key), parser the declared shape
hasOwn(shape, key) == \E i \in 1..Len(shape) : shape[i].key = key

\* for (const key in input) if (!Object.hasOwn(parser, key)): the index of
\* the first such key among keys, 0 when there is none
RECURSIVE firstUnknown(_, _, _)
firstUnknown(shape, keys, i) ==
    IF i > Len(keys) THEN 0
    ELSE IF ~hasOwn(shape, keys[i]) THEN i
    ELSE firstUnknown(shape, keys, i + 1)

\* objectUnknown returning the input in place of the new object.
objectUnknown_returnsInput(shape, ignoreUnknown, in, p, h, out, calls) ==
    LET keys == ForIn(h[in.id])
        u == IF ignoreUnknown THEN 0 ELSE firstUnknown(shape, keys, 1)
    IN IF u # 0
       THEN LET subPath == Concat(p, KeySeg(keys[u]))
            IN Throw(ParserError(subPath, formatPath(subPath) \o " is not supported"),
                     h, calls)
       ELSE Return(in, h, calls)

\* The unknown-property scan and the return of object's closure.
objectUnknown(shape, ignoreUnknown, in, p, h, out, calls) ==
    LET keys == ForIn(h[in.id])
        u == IF ignoreUnknown THEN 0 ELSE firstUnknown(shape, keys, 1)
    IN IF u # 0
       THEN LET subPath == Concat(p, KeySeg(keys[u]))
            IN Throw(ParserError(subPath, formatPath(subPath) \o " is not supported"),
                     h, calls)
       ELSE Return(Ref(out), h, calls)

\* objectFields visiting the declared fields last-declared first.
objectFields_lastFirst(shape, i, in, p, h, out, calls) ==
    IF i > Len(shape) THEN Return(Ref(out), h, calls)
    ELSE LET field == shape[Len(shape) + 1 - i]
             subInput == Get(h[in.id], field.key)
             subPath == Concat(p, KeySeg(field.key))
             o == Apply(field.parser, subInput, subPath, h)
             log == Append(calls, Invocation(field.parser, subInput, subPath, o))
         IN IF Threw(o) THEN Throw(o.error, o.heap, log)
            ELSE objectFields(shape, i + 1, in, p,
                              [o.heap EXCEPT ![out].props =
                                   Append(@, Prop(field.key, o.value, TRUE, TRUE))],
                              out, log)

\* for (const key in parser) output[key] = parser[key](input[key],
\* path.concat(key)): the declared fields from the i-th on, into the new
\* object cell out
objectFields(shape, i, in, p, h, out, calls) ==
    IF i > Len(shape) THEN Return(Ref(out), h, calls)
    ELSE LET key == shape[i].key
             subInput == Get(h[in.id], key)
             subPath == Concat(p, KeySeg(key))
             o == Apply(shape[i].parser, subInput, subPath, h)
             log == Append(calls, Invocation(shape[i].parser, subInput, subPath, o))
         IN IF Threw(o) THEN Throw(o.error, o.heap, log)
            ELSE objectFields(shape, i + 1, in, p,
                              [o.heap EXCEPT ![out].props =
                                   Append(@, Prop(key, o.value, TRUE, TRUE))],
                              out, log)

\* object(parser, ignoreUnknown), parser the declared shape: the sequence
\* of its [key, parser] fields in declaration order
object(shape, ignoreUnknown, in, p, h) ==
    IF in = Null \/ TypeOf(in) # "object"
    THEN Throw(ParserError(p, formatPath(p) \o " must be an object"), h, <<>>)
    ELSE LET out == Len(h) + 1
             fields == objectFields(shape, 1, in, p,
                                    Alloc(h, ObjectCell(<<>>)), out, <<>>)
         IN IF Threw(fields) THEN fields
            ELSE objectUnknown(shape, ignoreUnknown, in, p,
                               fields.heap, out, fields.calls)

--------------------------------------------------------------------------
(* Millisecond counts.  A count is held in two limbs, hi * Base + lo, since *)
(* the unit factors of months and years exceed 32 bits.                     *)

Base == 1000 * 1000

Wide(n) == [hi |-> n \div Base, lo |-> n % Base]

WideAdd(a, b) ==
    [hi |-> a.hi + b.hi + ((a.lo + b.lo) \div Base), lo |-> (a.lo + b.lo) % Base]

\* k * w, for a small factor k
Scale(k, w) ==
    [hi |-> (k * w.hi) + ((k * w.lo) \div Base), lo |-> (k * w.lo) % Base]

\* w / d rounded down, for a small divisor d
WideDiv(w, d) ==
    [hi |-> w.hi \div d, lo |-> (((w.hi % d) * Base) + w.lo) \div d]

MS_PER_SECOND == 1000

MS_PER_MINUTE == 60 * MS_PER_SECOND

MS_PER_HOUR == 60 * MS_PER_MINUTE

MS_PER_DAY == 24 * MS_PER_HOUR

MS_PER_WEEK == Scale(7, Wide(MS_PER_DAY))

\* A month of 31 days.
MS_PER_MONTH_31days == Scale(31, Wide(MS_PER_DAY))

MS_PER_MONTH == Scale(30, Wide(MS_PER_DAY))

MS_PER_YEAR == Scale(365, Wide(MS_PER_DAY))

--------------------------------------------------------------------------
(* ISO_DURATION_REGEXP, matched against the characters s *)

\* \d* from position i: the position after the longest run of digits
RECURSIVE digitsEnd(_, _)
digitsEnd(s, i) ==
    IF i <= Len(s) /\ IsDigit(s[i]) THEN digitsEnd(s, i + 1) ELSE i

\* lookahead missing the end of the string: (?=${designator}).
lookahead_designatorOnly(designator, s, k) ==
    /\ k <= Len(s)
    /\ s[k] = designator

\* (?=${designator}T?$) at position k
lookahead(designator, s, k) ==
    /\ k <= Len(s)
    /\ s[k] = designator
    /\ \/ k = Len(s)
       \/ k + 1 = Len(s) /\ s[k + 1] = "T"

\* (?:(?<name>\d*[,.]\d+(?=${designator}T?$)|\d+)${designator})? at position
\* i: whether the group took part, its text, the position after it
element(designator, s, i) ==
    LET j == digitsEnd(s, i)
        separated == j <= Len(s) /\ s[j] \in {",", "."}
        k == IF separated THEN digitsEnd(s, j + 1) ELSE j
    IN IF separated /\ k > j + 1 /\ lookahead(designator, s, k)
       THEN [matched |-> TRUE, text |-> SubSeq(s, i, k - 1), next |-> k + 1]
       ELSE IF j > i /\ j <= Len(s) /\ s[j] = designator
       THEN [matched |-> TRUE, text |-> SubSeq(s, i, j - 1), next |-> j + 1]
       ELSE [matched |-> FALSE, text |-> <<>>, next |-> i]

NoGroup == [matched |-> FALSE, text |-> <<>>, next |-> 0]

\* ISO_DURATION_REGEXP.exec(s): match is FALSE for null, else the groups
ISO_DURATION_REGEXP(s) ==
    LET negative == Len(s) >= 1 /\ s[1] = "-"
        start == IF negative THEN 2 ELSE 1
        years == element("Y", s, start + 1)
        months == element("M", s, years.next)
        weeks == element("W", s, months.next)
        days == element("D", s, weeks.next)
        time == days.next <= Len(s) /\ s[days.next] = "T"
        hours == IF time THEN element("H", s, days.next + 1) ELSE NoGroup
        minutes == IF time THEN element("M", s, hours.next) ELSE NoGroup
        seconds == IF time THEN element("S", s, minutes.next) ELSE NoGroup
        end == IF time THEN seconds.next ELSE days.next
    IN [match |-> /\ start <= Len(s)
                  /\ s[start] = "P"
                  /\ end = Len(s) + 1,
        negative |-> negative,
        years |-> years, months |-> months, weeks |-> weeks, days |-> days,
        hours |-> hours, minutes |-> minutes, seconds |-> seconds]

--------------------------------------------------------------------------
(* isoDuration *)

\* The number a run of digits denotes; 0 for no digits.
RECURSIVE digitsValue(_, _)
digitsValue(s, n) ==
    IF n = 0 THEN 0
    ELSE (10 * digitsValue(s, n - 1))
         + (CHOOSE d \in 0..9 : Digits[d + 1] = s[n])

RECURSIVE PowerOfTen(_)
PowerOfTen(k) == IF k = 0 THEN 1 ELSE 10 * PowerOfTen(k - 1)

\* parseElem(value): Number.parseFloat(value.replace(",", ".")), as the
\* whole part and the fraction num / den; 0 for a group that took no part
parseElem(group) ==
    IF ~group.matched THEN [whole |-> 0, num |-> 0, den |-> 1]
    ELSE LET s == group.text
             j == digitsEnd(s, 1)
         IN [whole |-> digitsValue(SubSeq(s, 1, j - 1), j - 1),
             num |-> IF j > Len(s) THEN 0
                     ELSE digitsValue(SubSeq(s, j + 1, Len(s)), Len(s) - j),
             den |-> IF j > Len(s) THEN 1 ELSE PowerOfTen(Len(s) - j)]

\* parseElem(group) * unit, in milliseconds
times(q, unit) ==
    WideAdd(Scale(q.whole, unit), WideDiv(Scale(q.num, unit), q.den))

\* A number of milliseconds: the magnitude, the sign, and whether the
\* double arithmetic that produced it was exact (every operand an integer
\* below 2^53).
Millis(w, negative, exact) ==
    [t |-> "number", ms |-> w, negative |-> negative, exact |-> exact]

DurationError(p) ==
    ParserError(p, formatPath(p) \o " must be a valid ISO 8601 duration")

\* The sum of the matched groups times their unit factors, and the sign.
durationOf(m) ==
    LET y == parseElem(m.years)
        mo == parseElem(m.months)
        w == parseElem(m.weeks)
        d == parseElem(m.days)
        hh == parseElem(m.hours)
        mi == parseElem(m.minutes)
        sec == parseElem(m.seconds)
        sum == WideAdd(times(y, MS_PER_YEAR),
               WideAdd(times(mo, MS_PER_MONTH),
               WideAdd(times(w, MS_PER_WEEK),
               WideAdd(times(d, Wide(MS_PER_DAY)),
               WideAdd(times(hh, Wide(MS_PER_HOUR)),
               WideAdd(times(mi, Wide(MS_PER_MINUTE)),
                       times(sec, Wide(MS_PER_SECOND))))))))
    IN Millis(sum, m.negative,
              \A q \in {y, mo, w, d, hh, mi, sec} : q.den = 1)

\* The check of the empty forms missing the signed ones.
EmptyDurations_unsigned == {<<"P">>, <<"P", "T">>}

\* The strings isoDuration compares its input with before matching.
EmptyDurations == {<<"P">>, <<"P", "T">>, <<"-", "P">>, <<"-", "P", "T">>}

\* isoDuration(): exec converts its argument to a string
isoDuration(in, p, h) ==
    IF \E e \in EmptyDurations : StrictEquals(in, Str(e))
    THEN Throw(DurationError(p), h, <<>>)
    ELSE LET m == ISO_DURATION_REGEXP(ToText(in, h))
         IN IF ~m.match
            THEN Throw(DurationError(p), h, <<>>)
            ELSE Return(durationOf(m), h, <<>>)

--------------------------------------------------------------------------
(* Parsers as values: the constructor called and its arguments *)

PassP == [fn |-> "pass"]

StringP == [fn |-> "string"]

NumberP(min, max) == [fn |-> "number", min |-> min, max |-> max]

EqualsP(value, messageSource) ==
    [fn |-> "equals", value |-> value, messageSource |-> messageSource]

TestNumP == [fn |-> "TEST_NUM"]

AddP == [fn |-> "add"]

PipeP(parsers) == [fn |-> "pipe", parsers |-> parsers]

OptionalP(inner, getDefault) ==
    [fn |-> "optional", inner |-> inner, getDefault |-> getDefault]

ArrayOfP(inner) == [fn |-> "arrayOf", inner |-> inner]

Field(key, fieldParser) == [key |-> key, parser |-> fieldParser]

ObjectP(shape, ignoreUnknown) ==
    [fn |-> "object", shape |-> shape, ignoreUnknown |-> ignoreUnknown]

IsoDurationP == [fn |-> "isoDuration"]

\* parser(input, path) on heap h
Apply(f, in, p, h) ==
    CASE f.fn = "pass" -> pass(in, p, h)
      [] f.fn = "string" -> string(in, p, h)
      [] f.fn = "number" -> number(f.min, f.max, in, p, h)
      [] f.fn = "equals" -> equals(f.value, f.messageSource, in, p, h)
      [] f.fn = "TEST_NUM" -> TEST_NUM(in, p, h)
      [] f.fn = "add" -> add(in, p, h)
      [] f.fn = "pipe" -> pipe(f.parsers, in, p, h)
      [] f.fn = "optional" -> optional(f.inner, f.getDefault, in, p, h)
      [] f.fn = "arrayOf" -> arrayOf(f.inner, in, p, h)
      [] f.fn = "object" -> object(f.shape, f.ignoreUnknown, in, p, h)
      [] f.fn = "isoDuration" -> isoDuration(in, p, h)

\* validate answering false to every failure.
tryParse_swallowsAll(f, in, o) ==
    LET log == <<Invocation(f, in, <<>>, o)>>
    IN IF Returned(o) THEN Return(Bool(TRUE), o.heap, log)
       ELSE Return(Bool(FALSE), o.heap, log)

\* The try / catch of validate, o being the outcome of parser(input, []).
tryParse(f, in, o) ==
    LET log == <<Invocation(f, in, <<>>, o)>>
    IN IF Returned(o) THEN Return(Bool(TRUE), o.heap, log)
       ELSE IF o.error.class = "ParserError" THEN Return(Bool(FALSE), o.heap, log)
       ELSE Throw(o.error, o.heap, log)

\* validate(input, parser)
validate(in, f, h) == tryParse(f, in, Apply(f, in, <<>>, h))

--------------------------------------------------------------------------
(* Bounds and the inputs drawn within them *)

MaxFields == 2

MaxProps == 2

MaxLen == 3

MaxStages == 3

MaxElems == 2

MaxPath == 3

\* The sequences over S of length at most n.
SeqsUpTo(S, n) == UNION {[1..k -> S] : k \in 0..n}

Distinct(seq, by(_)) ==
    \A i, j \in 1..Len(seq) : i # j => by(seq[i]) # by(seq[j])

A == Str(<<"a">>)

Paths == {<<>>, <<KeySeg("test")>>}

\* Path segments: property names, array indexes, symbols.
Segments ==
    {KeySeg("foo"), KeySeg("bar"), IndexSeg(0), IndexSeg(42), SymbolSeg("test")}

FormattedPaths == SeqsUpTo(Segments, MaxPath)

AnyNumber == NumberP(Undefined, Undefined)

Names == {"foo", "bar", "baz"}

\* Declared shapes: distinct field names in declaration order.
Shapes ==
    {sh \in SeqsUpTo({Field(k, f) : k \in Names, f \in {TestNumP, AnyNumber}},
                     MaxFields) : Distinct(sh, LAMBDA x : x.key)}

\* The shape of the type tests: optional fields.
OptionalShape ==
    <<Field("foo", OptionalP(StringP, Undefined)), Field("bar", AnyNumber),
      Field("baz", OptionalP(AnyNumber, Undefined))>>

\* The shape of the object test.
TestShape == <<Field("foo", TestNumP), Field("bar", AnyNumber)>>

\* Properties an input object may hold: own, own and not enumerable,
\* inherited.
Props ==
    {Prop(k, Num(1), TRUE, TRUE) : k \in Names}
    \cup {Prop(k, A, TRUE, TRUE) : k \in Names}
    \cup {Prop(k, Num(1), TRUE, FALSE) : k \in Names}
    \cup {Prop(k, Num(1), FALSE, TRUE) : k \in Names}

ObjectInputs ==
    {ps \in SeqsUpTo(Props, MaxProps) : Distinct(ps, LAMBDA x : x.key)}
    \cup {<<Prop("foo", Num(1), TRUE, TRUE), Prop("bar", Num(2), TRUE, TRUE),
            Prop("baz", Num(3), TRUE, TRUE)>>,
          <<Prop("foo", A, TRUE, TRUE), Prop("bar", Num(2), TRUE, TRUE),
            Prop("baz", Num(3), TRUE, TRUE)>>}

Elems == {A, Num(1), Undefined}

ArrayInputs == SeqsUpTo(Elems, MaxLen)

Primitives == {Undefined, Null, Num(0), Num(1), Bool(FALSE), A, Str(<<>>)}

Stages == {AddP, TestNumP, StringP, AnyNumber}

Defaults == {Undefined, Returning(A), Returning(Num(0)), Throwing}

\* Duration strings: a prefix, then quantities with designators and "T"s.
Integers == {<<"3">>, <<"1", "2">>}

Fractions == {<<"2", ".", "5">>, <<",", "5">>}

Quantities == Integers \cup Fractions

Designators == {"Y", "M", "W", "D", "H", "S"}

Pieces == {<<"T">>} \cup {q \o <<d>> : q \in Quantities, d \in Designators}

RECURSIVE Flatten(_, _)
Flatten(pieces, i) ==
    IF i > Len(pieces) THEN <<>> ELSE pieces[i] \o Flatten(pieces, i + 1)

Prefixes == {<<"P">>, <<"-", "P">>, <<>>}

Durations ==
    {pre \o Flatten(ps, 1) : pre \in Prefixes, ps \in SeqsUpTo(Pieces, MaxElems)}

\* Durations written in the order of the grammar: the slots present, each
\* with the quantity "3" but the last present, which has the quantity q;
\* "T" is written when t, and t holds when a time slot is present.
Slots == <<"Y", "M", "W", "D", "H", "M", "S">>

TimeSlots == {5, 6, 7}

Written(present, t, q, pre) ==
    LET last == CHOOSE i \in present : \A j \in present : j <= i
        text(i) == IF i \notin present THEN <<>>
                   ELSE (IF i = last THEN q ELSE <<"3">>) \o <<Slots[i]>>
    IN pre \o text(1) \o text(2) \o text(3) \o text(4)
           \o (IF t THEN <<"T">> \o text(5) \o text(6) \o text(7) ELSE <<>>)

Ordered(Q) ==
    {Written(c.present, c.t, c.q, c.pre) :
        c \in {d \in [present : (SUBSET (1..7)) \ {{}}, t : BOOLEAN, q : Q,
                       pre : {<<"P">>, <<"-", "P">>}] :
                   (d.present \cap TimeSlots # {}) => d.t}}

\* Well-ordered durations whose last quantity, and only it, has a fraction.
FractionLast == Ordered(Fractions)

\* Well-ordered durations of integer quantities.
IntegerDurations == Ordered(Integers)

\* Strings of the isoDuration test.
TestDurations ==
    {<<"P", "3", "Y", "6", "M", "2", "W", "4", "D", "T",
       "1", "2", "H", "3", "0", "M", "5", ".", "2", "S">>,
     <<"P", "3", "Y", "6", "M", "2", "W", "4", "D", "T",
       "1", "2", "H", "3", "0", "M", "5", "S">>,
     <<"-", "P", "3", "Y", "6", "M", "2", "W", "4", "D", "T",
       "1", "2", "H", "3", "0", "M", "5", "S">>,
     <<"P", "3", "Y", "6", "M", "2", "W", "4", "D", "T",
       "1", "2", "H", "3", "0", ".", "4", "M", "5", "S">>,
     <<"P", "3", "Y", "6", "M", "2", "W", "4", ".", "4", "D", "T", "1", "2", "H">>,
     <<"P", "3", "Y", "6", "M", "2", "W", "4", ".", "4", "D", "T">>,
     <<"P", "T", "3", "0", ".", "1", "M">>,
     <<"P", "2", ".", "4", "Y", "3", "M">>}

\* Strings close to the forms without a quantity.
NearEmpty ==
    {<<"-">>, <<"+", "P">>, <<"P", "P">>, <<"p">>, <<"p", "t">>, <<"P", "t">>,
     <<"-", "-", "P">>, <<"P", "-", "T">>, <<"P", "\n">>, <<" ", "P">>,
     <<"P", "T", "\n">>, <<"P", "Y">>, <<"P", "T", "S">>, <<"P", ".", "Y">>}

--------------------------------------------------------------------------
(* The state: a parser about to be called on an input at a path, on a      *)
(* heap; then the outcome of the call.  heap stays the heap at the time    *)
(* of the call; outcome.heap is the heap when the call ended.              *)

Ready == pc = "ready" /\ outcome = NotCalled

InitObject ==
    /\ Ready
    /\ path \in Paths
    /\ parser \in {ObjectP(sh, ign) : sh \in Shapes \cup {OptionalShape, TestShape},
                                      ign \in BOOLEAN}
    /\ \/ /\ input = Ref(1)
          /\ heap \in {<<ObjectCell(ps)>> : ps \in ObjectInputs}
       \/ /\ input = Ref(1)
          /\ heap \in {<<ArrayCell(<<>>)>>, <<ArrayCell(<<Num(1)>>)>>}
       \/ /\ input \in {Null, Undefined, Num(42), A}
          /\ heap = <<>>

InitArrayOf ==
    /\ Ready
    /\ path \in Paths
    /\ parser \in {ArrayOfP(f) : f \in {StringP, TestNumP, AnyNumber,
                                        OptionalP(StringP, Undefined)}}
    /\ \/ /\ input = Ref(1)
          /\ heap \in {<<ArrayCell(es)>> : es \in ArrayInputs}
       \/ /\ input = Ref(1)
          /\ heap = <<ObjectCell(<<Prop("length", Num(0), TRUE, TRUE)>>)>>
       \/ /\ input \in {Null, Undefined, Num(42), A}
          /\ heap = <<>>

InitPipe ==
    /\ Ready
    /\ path \in Paths
    /\ parser \in {PipeP(ps) : ps \in SeqsUpTo(Stages, MaxStages)}
    /\ input \in {Num(1), A, Undefined}
    /\ heap = <<>>

InitOptional ==
    /\ Ready
    /\ path \in Paths
    /\ parser \in {OptionalP(f, d) : f \in {StringP, TestNumP, AnyNumber},
                                     d \in Defaults}
    /\ input \in Primitives
    /\ heap = <<>>

InitIsoDuration ==
    /\ Ready
    /\ path \in Paths
    /\ parser = IsoDurationP
    /\ \/ /\ input \in {Str(s) : s \in Durations \cup TestDurations
                                         \cup FractionLast \cup IntegerDurations
                                         \cup NearEmpty}
          /\ heap = <<>>
       \/ /\ input = Ref(1)
          /\ heap \in {<<ArrayCell(<<Str(s)>>)>> : s \in Durations}
       \/ /\ input = Ref(1)
          /\ heap \in {<<ArrayCell(<<Str(<<"P", "1">>), Str(<<"5", "Y">>)>>)>>,
                       <<ObjectCell(<<>>)>>}
       \/ /\ input \in {Null, Undefined, Num(3), Bool(TRUE)}
          /\ heap = <<>>

\* Parsers validate is called with.
Validated ==
    {StringP, AnyNumber, NumberP(Num(0), Num(1)), TestNumP, PassP,
     EqualsP(A, Undefined), EqualsP(A, Message("custom")),
     EqualsP(A, DynamicMessage), EqualsP(A, Throwing),
     OptionalP(StringP, Throwing), OptionalP(StringP, Returning(A)),
     PipeP(<<AnyNumber, TestNumP>>), PipeP(<<TestNumP, EqualsP(A, Throwing)>>),
     IsoDurationP}

InitValidate ==
    /\ Ready
    /\ path = <<>>
    /\ parser \in Validated
    /\ input \in Primitives \cup {NaN, Num(2), Str(<<"P", "T", "5", "S">>)}
    /\ heap = <<>>

\* formatPath is about to be called on a path.
InitFormatPath ==
    /\ Ready
    /\ path \in FormattedPaths
    /\ parser = PassP
    /\ input = Undefined
    /\ heap = <<>>

Init ==
    \/ InitObject
    \/ InitArrayOf
    \/ InitPipe
    \/ InitOptional
    \/ InitIsoDuration
    \/ InitValidate
    \/ InitFormatPath

\* parser(input, path), parser made by the constructor fn
Call(fn) ==
    /\ pc = "ready"
    /\ parser.fn = fn
    /\ outcome' = Apply(parser, input, path, heap)
    /\ pc' = "called"
    /\ UNCHANGED <<parser, input, path, heap>>

CallObject == Call("object")

CallArrayOf == Call("arrayOf")

CallPipe == Call("pipe")

CallOptional == Call("optional")

CallIsoDuration == Call("isoDuration")

\* validate(input, parser)
Validate ==
    /\ pc = "ready"
    /\ outcome' = validate(input, parser, heap)
    /\ pc' = "validated"
    /\ UNCHANGED <<parser, input, path, heap>>

\* formatPath(path)
FormatPath ==
    /\ pc = "ready"
    /\ outcome' = Return(Text(formatPath(path)), heap, <<>>)
    /\ pc' = "formatted"
    /\ UNCHANGED <<parser, input, path, heap>>

Next ==
    \/ CallObject
    \/ CallArrayOf
    \/ CallPipe
    \/ CallOptional
    \/ CallIsoDuration
    \/ Validate
    \/ FormatPath

Spec == Init /\ [][Next]_vars

SpecObject == InitObject /\ [][CallObject]_vars

SpecArrayOf == InitArrayOf /\ [][CallArrayOf]_vars

SpecPipe == InitPipe /\ [][CallPipe]_vars

SpecOptional == InitOptional /\ [][CallOptional]_vars

SpecIsoDuration == InitIsoDuration /\ [][CallIsoDuration]_vars

SpecValidate == InitValidate /\ [][Validate]_vars

SpecFormatPath == InitFormatPath /\ [][FormatPath]_vars

--------------------------------------------------------------------------
(* object: the claims C1, C2, C3, under SpecObject *)

\* object's closure was called on an object (or array) input.
ObjectCalled == pc = "called" /\ parser.fn = "object" /\ IsRef(input)

DeclaredNames == {parser.shape[i].key : i \in 1..Len(parser.shape)}

InputProps == PropsOf(heap[input.id])

\* The names of the input's own properties that the shape does not declare.
OwnUndeclared ==
    {InputProps[i].key : i \in {j \in 1..Len(InputProps) :
        InputProps[j].own /\ InputProps[j].key \notin DeclaredNames}}

FieldPath(i) == Concat(path, KeySeg(parser.shape[i].key))

\* What the i-th declared field's parser does on input[name] at P + [name].
FieldResult(i) ==
    Apply(parser.shape[i].parser, Get(heap[input.id], parser.shape[i].key),
          FieldPath(i), heap)

AllFieldsValid == \A i \in 1..Len(parser.shape) : Returned(FieldResult(i))

InvalidFields == {i \in 1..Len(parser.shape) : Threw(FieldResult(i))}

NotSupported(name) ==
    LET subPath == Concat(path, KeySeg(name))
    IN ParserError(subPath, formatPath(subPath) \o " is not supported")

UnknownPropertyError ==
    /\ Threw(outcome)
    /\ \E i \in 1..Len(InputProps) : outcome.error = NotSupported(InputProps[i].key)

\* C1: with ignoreUnknown false, on an object input at path P: if every
\* declared field parser succeeds and the input has an own property the shape
\* does not declare, the call fails with the ParserError at P + [name] saying
\* '<formatPath(P + [name])> is not supported' for such a name; that error is
\* raised only after all declared fields validated; and it is never raised
\* for an input whose own properties are all declared.
C1_UnknownOwnProperty ==
    (ObjectCalled /\ ~parser.ignoreUnknown) =>
        /\ (AllFieldsValid /\ OwnUndeclared # {}) =>
               /\ Threw(outcome)
               /\ \E name \in OwnUndeclared : outcome.error = NotSupported(name)
        /\ UnknownPropertyError =>
               /\ AllFieldsValid
               /\ Len(outcome.calls) = Len(parser.shape)
        /\ OwnUndeclared = {} => ~UnknownPropertyError

\* Every property of the input is its own and enumerable.
PlainInput ==
    \A i \in 1..Len(InputProps) : InputProps[i].own /\ InputProps[i].enumerable

\* C1 on plain inputs, where for...in sees exactly the own properties.
C1_OnPlainInputs == (ObjectCalled /\ PlainInput) => C1_UnknownOwnProperty

OutputCell == outcome.heap[outcome.value.id]

\* C2: whenever object(shape, ignoreUnknown) succeeds, the value returned is
\* a newly made object, not the input, whose properties are exactly the
\* declared names, each holding the output of its field parser on
\* input[name]; undeclared input properties are not in it, and the input
\* object (every cell of the caller's heap) is as it was.
C2_FreshExactOutput ==
    (ObjectCalled /\ Returned(outcome)) =>
        /\ IsRef(outcome.value)
        /\ outcome.value # input
        /\ outcome.value.id \notin DOMAIN heap
        /\ OutputCell.class = "Object"
        /\ Len(OutputCell.props) = Len(parser.shape)
        /\ {OutputCell.props[i].key : i \in 1..Len(OutputCell.props)} = DeclaredNames
        /\ \A i \in 1..Len(parser.shape) :
               \E j \in 1..Len(OutputCell.props) :
                   OutputCell.props[j] =
                       Prop(parser.shape[i].key, FieldResult(i).value, TRUE, TRUE)
        /\ \A id \in DOMAIN heap : outcome.heap[id] = heap[id]

\* C2's case: a successful call with ignoreUnknown that dropped an
\* undeclared own property and converted a declared one.
C2_Witness ==
    /\ ObjectCalled
    /\ Returned(outcome)
    /\ parser.ignoreUnknown
    /\ PlainInput
    /\ OwnUndeclared # {}
    /\ \E i \in 1..Len(parser.shape) :
           FieldResult(i).value # Get(heap[input.id], parser.shape[i].key)

--------------------------------------------------------------------------
(* arrayOf: the claim C4, under SpecArrayOf *)

ArrayCalled == pc = "called" /\ parser.fn = "arrayOf"

InputElems == heap[input.id].elems

\* What the element parser does on the element at index i at P + [i].
ElemResult(i) ==
    Apply(parser.inner, InputElems[i + 1], Concat(path, IndexSeg(i)), heap)

FailingIndexes == {i \in 0..(Len(InputElems) - 1) : Threw(ElemResult(i))}

--------------------------------------------------------------------------
(* pipe: the claim C5, under SpecPipe *)

PipeCalled == pc = "called" /\ parser.fn = "pipe"

\* C5: pipe() returns its input; pipe(p0..pn) invokes the stages in declared
\* order, each on the previous stage's output and at the path the pipe was
\* called with; if a stage fails no later stage is invoked and its error
\* propagates, path and message unchanged; if all succeed the result is the
\* last stage's output.
C5_Pipe ==
    PipeCalled =>
        LET n == Len(outcome.calls)
            calls == outcome.calls
        IN /\ n <= Len(parser.parsers)
           /\ \A i \in 1..n :
                  LET in == IF i = 1 THEN input ELSE calls[i - 1].value
                      stage == Apply(parser.parsers[i], in, path, heap)
                  IN /\ calls[i].fn = parser.parsers[i]
                     /\ calls[i].input = in
                     /\ calls[i].path = path
                     /\ calls[i].kind = stage.kind
                     /\ calls[i].value = stage.value
                     /\ calls[i].error = stage.error
                     /\ i < n => calls[i].kind = "return"
           /\ IF n >= 1 /\ calls[n].kind = "throw"
              THEN /\ Threw(outcome)
                   /\ outcome.error = calls[n].error
              ELSE /\ n = Len(parser.parsers)
                   /\ Returned(outcome)
                   /\ outcome.value = IF n = 0 THEN input ELSE calls[n].value

\* C5's case: the second of three stages fails on the converted output of
\* the first.
C5_Witness ==
    /\ PipeCalled
    /\ Len(parser.parsers) = 3
    /\ Len(outcome.calls) = 2
    /\ outcome.calls[1].value # input
    /\ Threw(outcome)

--------------------------------------------------------------------------
(* optional: the claim C6, under SpecOptional *)

OptionalCalled == pc = "called" /\ parser.fn = "optional"

\* C6: on an absent (undefined) input V is never invoked, and the result is
\* undefined when no default function was given and getDefault() otherwise;
\* on every other input, null, 0 and false included, the result or error is
\* that of V(input, path) and getDefault is not invoked.
C6_Optional ==
    OptionalCalled =>
        IF input = Undefined
        THEN /\ \A k \in 1..Len(outcome.calls) : outcome.calls[k].fn # parser.inner
             /\ IF parser.getDefault = Undefined
                THEN /\ Returned(outcome)
                     /\ outcome.value = Undefined
                     /\ outcome.calls = <<>>
                ELSE LET r == CallFunction(parser.getDefault, Undefined, <<>>, heap)
                     IN /\ Len(outcome.calls) = 1
                        /\ outcome.calls[1].fn = parser.getDefault
                        /\ IF r.threw
                           THEN Threw(outcome) /\ outcome.error = r.value
                           ELSE Returned(outcome) /\ outcome.value = r.value
        ELSE LET v == Apply(parser.inner, input, path, heap)
             IN /\ outcome.kind = v.kind
                /\ outcome.value = v.value
                /\ outcome.error = v.error
                /\ Len(outcome.calls) = 1
                /\ outcome.calls[1].fn = parser.inner
                /\ outcome.calls[1].input = input
                /\ outcome.calls[1].path = path

\* C6's case: null, with a default function at hand, is given to V, which
\* rejects it.
C6_Witness ==
    /\ OptionalCalled
    /\ input = Null
    /\ parser.getDefault # Undefined
    /\ ThrewParserError(outcome)
    /\ outcome.error.path = path

--------------------------------------------------------------------------
(* validate: the claim C7, under SpecValidate *)

\* C7: validate(input, V) invokes V once, with the empty path; it returns
\* true iff that invocation does not raise, false iff it raises a
\* ParserError, and when it raises anything else that failure propagates.
C7_Validate ==
    pc = "validated" =>
        LET v == Apply(parser, input, <<>>, heap)
        IN /\ Len(outcome.calls) = 1
           /\ outcome.calls[1].fn = parser
           /\ outcome.calls[1].input = input
           /\ outcome.calls[1].path = <<>>
           /\ Returned(v) <=> (Returned(outcome) /\ outcome.value = Bool(TRUE))
           /\ ThrewParserError(v) <=> (Returned(outcome) /\ outcome.value = Bool(FALSE))
           /\ (Threw(v) /\ ~ThrewParserError(v)) <=> Threw(outcome)
           /\ Threw(outcome) => outcome.error = v.error

\* C7's case: V raises a failure that is no ParserError.
C7_Witness ==
    /\ pc = "validated"
    /\ Threw(outcome)
    /\ outcome.error.class = "Error"

--------------------------------------------------------------------------
(* isoDuration: the claims C8, C9, C10, under SpecIsoDuration *)

DurationCalled == pc = "called" /\ parser.fn = "isoDuration"

StringGiven == DurationCalled /\ input.t = "string"

\* C8: isoDuration() fails with '<formatPath(path)> must be a valid ISO 8601
\* duration' on every input that is not a string, whatever its text form; it
\* never returns a number for such an input.
C8_NonStringRejected ==
    (DurationCalled /\ input.t # "string") =>
        /\ Threw(outcome)
        /\ outcome.error = DurationError(path)

\* A fraction separator stands at position j of the input string.
SeparatorAt(j) == input.s[j] \in {",", "."}

\* After the fractional quantity whose separator stands at j, past its
\* designator, another quantity begins.
FurtherQuantityAfter(j) ==
    \E m, k \in (j + 1)..Len(input.s) :
        /\ m < k
        /\ ~IsDigit(input.s[m])
        /\ IsDigit(input.s[k]) \/ SeparatorAt(k)

FractionNotLast ==
    \E j \in 1..Len(input.s) : SeparatorAt(j) /\ FurtherQuantityAfter(j)

\* C9: in every accepted string at most one quantity has a fraction, and it
\* is the last quantity of the whole duration; a string in which a
\* fractional quantity is followed by a further quantity, in the same half
\* or after the "T" separator, is rejected with '<path> must be a valid ISO
\* 8601 duration'; a well-ordered duration whose last quantity is fractional,
\* followed only by its designator and, in the date half, the "T" separator,
\* is accepted.
C9_FractionLast ==
    StringGiven =>
        /\ Returned(outcome) => ~FractionNotLast
        /\ FractionNotLast =>
               /\ Threw(outcome)
               /\ outcome.error = DurationError(path)
        /\ input.s \in FractionLast => Returned(outcome)

\* C9's case: an accepted duration whose fractional last quantity follows
\* another quantity and is followed by its designator and a trailing "T".
C9_Witness ==
    /\ StringGiven
    /\ Returned(outcome)
    /\ \E i, j \in 1..Len(input.s) : i < j /\ input.s[i] = "Y" /\ SeparatorAt(j)
    /\ input.s[Len(input.s)] = "T"
    /\ ~outcome.value.exact

\* The position of the designator c among the positions lo..hi of the input
\* string; 0 when it is not there.
DesignatorAt(c, lo, hi) ==
    LET at == {k \in lo..hi : k <= Len(input.s) /\ input.s[k] = c}
    IN IF at = {} THEN 0 ELSE CHOOSE k \in at : \A m \in at : k <= m

\* The position of "T", past the end when the string has none.
TimeAt ==
    LET t == DesignatorAt("T", 1, Len(input.s))
    IN IF t = 0 THEN Len(input.s) + 1 ELSE t

RECURSIVE Decimal(_, _)
\* The number written by the digits that end at position k of the input.
Decimal(k, power) ==
    IF k >= 1 /\ IsDigit(input.s[k])
    THEN (power * (CHOOSE d \in 0..9 : Digits[d + 1] = input.s[k]))
         + Decimal(k - 1, 10 * power)
    ELSE 0

\* The integer quantity written before the designator c of a half; 0 when
\* the half has no such designator.
Quantity(c, lo, hi) ==
    LET k == DesignatorAt(c, lo, hi)
    IN IF k = 0 THEN 0 ELSE Decimal(k - 1, 1)

\* y*31536000000 + mo*2592000000 + w*604800000 + d*86400000 + h*3600000
\* + mi*60000 + s*1000, in limbs of 10^6
ExpectedMillis ==
    LET date == TimeAt - 1
        len == Len(input.s)
    IN WideAdd(Scale(Quantity("Y", 1, date), [hi |-> 31536, lo |-> 0]),
       WideAdd(Scale(Quantity("M", 1, date), [hi |-> 2592, lo |-> 0]),
       WideAdd(Scale(Quantity("W", 1, date), [hi |-> 604, lo |-> 800000]),
       WideAdd(Scale(Quantity("D", 1, date), [hi |-> 86, lo |-> 400000]),
       WideAdd(Scale(Quantity("H", TimeAt, len), [hi |-> 3, lo |-> 600000]),
       WideAdd(Scale(Quantity("M", TimeAt, len), [hi |-> 0, lo |-> 60000]),
               Scale(Quantity("S", TimeAt, len), [hi |-> 0, lo |-> 1000])))))))

IntegersOnly == \A j \in 1..Len(input.s) : ~SeparatorAt(j)

\* C10: for every accepted duration string of integer quantities y, mo, w,
\* d, h, mi, s (0 for an absent one) isoDuration() returns exactly
\* y*31536000000 + mo*2592000000 + w*604800000 + d*86400000 + h*3600000
\* + mi*60000 + s*1000, and exactly the negation of that sum when the string
\* has a leading "-".
C10_ExactSum ==
    (StringGiven /\ Returned(outcome) /\ IntegersOnly) =>
        outcome.value = Millis(ExpectedMillis, input.s[1] = "-", TRUE)

\* C10's case: a negative duration with years, months, and minutes.
C10_Witness ==
    /\ StringGiven
    /\ Returned(outcome)
    /\ IntegersOnly
    /\ input.s[1] = "-"
    /\ Quantity("Y", 1, TimeAt - 1) > 0
    /\ Quantity("M", 1, TimeAt - 1) > 0
    /\ Quantity("M", TimeAt, Len(input.s)) > 0
    /\ Quantity("S", TimeAt, Len(input.s)) > 0

--------------------------------------------------------------------------
(* formatPath: the claim C11, under SpecFormatPath *)

PathFormatted == pc = "formatted"

\* A segment as the path grammar writes it: a string segment bare or as
\* '.name', any other segment as '[segment]'.
Rendered(segment, bare) ==
    IF segment.t = "string"
    THEN IF bare THEN segment.key ELSE "." \o segment.key
    ELSE IF segment.t = "number" THEN "[" \o ToString(segment.n) \o "]"
    ELSE "[Symbol(" \o segment.description \o ")]"

\* The first n segments of p rendered, the segment at position bareAt bare.
RECURSIVE Rendering(_, _, _)
Rendering(p, n, bareAt) ==
    IF n = 0 THEN ""
    ELSE Rendering(p, n - 1, bareAt) \o Rendered(p[n], n = bareAt)

StringPositions(p) == {i \in 1..Len(p) : p[i].t = "string"}

\* The position of the first string segment of p, 0 if it has none.
FirstString(p) ==
    IF StringPositions(p) = {} THEN 0
    ELSE CHOOSE i \in StringPositions(p) : \A j \in StringPositions(p) : i <= j

Quoted(text) == "\"" \o text \o "\""

\* C11 as stated: formatPath(P) is the double-quoted concatenation of the
\* rendered segments of P, the first string segment of P bare wherever it
\* stands, every later string segment as '.name', every integer or symbol
\* segment as '[segment]'; the empty path gives '""'.
C11_FirstStringBare ==
    PathFormatted =>
        /\ Returned(outcome)
        /\ outcome.value = Text(Quoted(Rendering(path, Len(path), FirstString(path))))

\* C11 amended: formatPath(P) is the double-quoted concatenation of the
\* rendered segments of P, a string segment bare only when it is the first
\* segment of P, every string segment at a later position as '.name' (also
\* the first string segment when other segments precede it), every integer
\* or symbol segment as '[segment]'; the empty path gives '""'; nothing but
\* the result is produced.
C11_FormatPath ==
    PathFormatted =>
        /\ Returned(outcome)
        /\ outcome.value = Text(Quoted(Rendering(path, Len(path), 1)))
        /\ path = <<>> => outcome.value = Text("\"\"")
        /\ outcome.heap = heap /\ outcome.calls = <<>>

\* formatPath was called on a path whose first string segment follows an
\* index and is followed by a symbol.
C11_Witness ==
    /\ PathFormatted
    /\ Len(path) = 3
    /\ path[1].t = "number" /\ path[2].t = "string" /\ path[3].t = "symbol"
    /\ outcome.value = Text("\"[0].foo[Symbol(test)]\"")

--------------------------------------------------------------------------
(* isoDuration: the claim C12, under SpecIsoDuration *)

\* 'P', 'PT', '-P' and '-PT'
WithoutQuantity == {<<"P">>, <<"P", "T">>, <<"-", "P">>, <<"-", "P", "T">>}

\* The string has a quantity: a digit right before a designator.
HasQuantity(s) ==
    \E i \in 1..(Len(s) - 1) : IsDigit(s[i]) /\ s[i + 1] \in Designators

\* The string matches the duration grammar with no quantity group taking part.
MatchesWithoutQuantity(s) ==
    LET m == ISO_DURATION_REGEXP(s)
    IN /\ m.match
       /\ \A g \in {m.years, m.months, m.weeks, m.days,
                     m.hours, m.minutes, m.seconds} : ~g.matched

\* C12: isoDuration() rejects each of 'P', 'PT', '-P' and '-PT' with
\* '<formatPath(path)> must be a valid ISO 8601 duration' at the call's path;
\* these four are the only strings that match the duration grammar without a
\* quantity; and every string isoDuration() accepts contains a quantity.
C12_EmptyDurations ==
    StringGiven =>
        /\ input.s \in WithoutQuantity =>
                /\ ThrewParserError(outcome)
                /\ outcome.error.path = path
                /\ outcome.error.message =
                        formatPath(path) \o " must be a valid ISO 8601 duration"
                /\ outcome.heap = heap
        /\ MatchesWithoutQuantity(input.s) <=> input.s \in WithoutQuantity
        /\ Returned(outcome) => HasQuantity(input.s)

\* isoDuration() at the path ["test"] rejected '-PT'.
C12_Witness ==
    /\ StringGiven
    /\ input.s = <<"-", "P", "T">>
    /\ path = <<KeySeg("test")>>
    /\ outcome.kind = "throw"
    /\ outcome.error.message = "\"test\" must be a valid ISO 8601 duration"

====
